---------------------------- MODULE Spec2Model ----------------------------
(***************************************************************************)
(* Model of the snake-game contract (snake-game-contract/src/contract.rs,  *)
(* state.rs, lib.rs): one SnakeGameState per chain, the operations of      *)
(* execute_operation, the message handlers of execute_message, and the     *)
(* messages in flight between chains.                                      *)
(*                                                                         *)
(* Conventions.  Option<T> is a sequence of length at most one: None is    *)
(* <<>> and Some(x) is <<x>>.  A MapView is a function whose DOMAIN is the *)
(* set of keys present; MapView::indices yields the keys in ascending key  *)
(* order.  A session id "session_{chain}_{counter}" is the pair            *)
(* <<chain, counter>>: the chain id prints with a fixed width, so the      *)
(* formatted string determines both numbers, as the pair does.             *)
(* Counters stay far below 2^32 within the bounds, so u32/u64 arithmetic   *)
(* never wraps here.                                                       *)
(***************************************************************************)
EXTENDS Integers, Sequences, FiniteSets, Bags, TLC

\* ------------------------------------------------------------------ bounds
NumChains == 2
MaxSessions == 2
MaxCandies == 1
NumNames == 1
MaxTime == 1
MaxInFlight == 2
MaxCalls == 4
MaxScore == 3
MaxInjected == 1
MaxSteps == 5
MaxReceived == 4

Chains == 1..NumChains
Names == 1..NumNames
Times == 1..MaxTime

\* ------------------------------------------------------------------ state
VARIABLES
    sessions,                 \* chain -> (session_id -> GameSession)
    session_counter,          \* chain -> u64
    player_names,             \* chain -> (ChainId -> String)
    my_player_name,           \* chain -> Option<String>
    global_leaderboard,       \* chain -> Vec<LeaderboardEntry>
    player_stats,             \* chain -> (ChainId -> PlayerStats)
    leaderboard_participants, \* chain -> set of ChainId
    is_leaderboard_chain,     \* chain -> bool
    leaderboard_chain_id,     \* chain -> Option<ChainId>
    my_sessions,              \* chain -> Vec<String>
    my_stats,                 \* chain -> Option<PlayerStats>
    my_current_session,       \* chain -> Option<String>
    net,                      \* bag of messages in flight
    last,                     \* the handler invocation that produced this state
    saved,                    \* whether that invocation's state.save() succeeded
    injected,                 \* messages no operation sends, received so far
    steps,                    \* handler invocations so far (Spec bounds them)
    acc,                      \* a PlayerStats driven by add_game alone (SpecAddGame)
    calls                     \* the candies arguments given to acc so far

chainVars == <<sessions, session_counter, player_names, my_player_name,
               global_leaderboard, player_stats, leaderboard_participants,
               is_leaderboard_chain, leaderboard_chain_id, my_sessions,
               my_stats, my_current_session>>

vars == <<sessions, session_counter, player_names, my_player_name,
          global_leaderboard, player_stats, leaderboard_participants,
          is_leaderboard_chain, leaderboard_chain_id, my_sessions,
          my_stats, my_current_session, net, last, saved, injected, steps, acc,
          calls>>

\* ---------------------------------------------------------------- helpers
None == <<>>

Some(x) == <<x>>

\* The whole durable state of chain c, as one record.
ChainState(c) ==
    [sessions |-> sessions[c],
     session_counter |-> session_counter[c],
     player_names |-> player_names[c],
     my_player_name |-> my_player_name[c],
     global_leaderboard |-> global_leaderboard[c],
     player_stats |-> player_stats[c],
     leaderboard_participants |-> leaderboard_participants[c],
     is_leaderboard_chain |-> is_leaderboard_chain[c],
     leaderboard_chain_id |-> leaderboard_chain_id[c],
     my_sessions |-> my_sessions[c],
     my_stats |-> my_stats[c],
     my_current_session |-> my_current_session[c]]

\* MapView::insert
MapInsert(m, k, v) == [x \in (DOMAIN m) \cup {k} |-> IF x = k THEN v ELSE m[x]]

EmptyMap == [x \in {} |-> 0]

\* ------------------------------------------------------------ Stats Model
PlayerStats_new(chain_id) ==
    [chain_id |-> chain_id,
     games_played |-> 0,
     highest_score |-> 0,
     total_candies |-> 0,
     current_streak |-> 0,
     best_streak |-> 0,
     last_game_timestamp |-> 0]

\* add_game that takes every game's score as the highest.
add_game_LastWins(self, candies_collected, timestamp) ==
    LET is_record == candies_collected > self.highest_score
        streak == self.current_streak + 1
    IN  [stats |->
            [chain_id |-> self.chain_id,
             games_played |-> self.games_played + 1,
             total_candies |-> self.total_candies + candies_collected,
             last_game_timestamp |-> timestamp,
             highest_score |-> candies_collected,
             current_streak |-> IF is_record THEN streak ELSE 0,
             best_streak |-> IF is_record /\ streak > self.best_streak
                             THEN streak ELSE self.best_streak],
         is_record |-> is_record]

\* add_game that counts the candies of record games only.
add_game_RecordCandiesOnly(self, candies_collected, timestamp) ==
    LET is_record == candies_collected > self.highest_score
        streak == self.current_streak + 1
    IN  [stats |->
            [chain_id |-> self.chain_id,
             games_played |-> self.games_played + 1,
             total_candies |-> IF is_record
                               THEN self.total_candies + candies_collected
                               ELSE self.total_candies,
             last_game_timestamp |-> timestamp,
             highest_score |-> IF is_record THEN candies_collected
                               ELSE self.highest_score,
             current_streak |-> IF is_record THEN streak ELSE 0,
             best_streak |-> IF is_record /\ streak > self.best_streak
                             THEN streak ELSE self.best_streak],
         is_record |-> is_record]

\* add_game that leaves current_streak alone when the game is no record.
add_game_KeepStreak(self, candies_collected, timestamp) ==
    LET is_record == candies_collected > self.highest_score
        counted == [self EXCEPT !.games_played = @ + 1,
                                !.total_candies = @ + candies_collected,
                                !.last_game_timestamp = timestamp]
    IN  [stats |-> IF is_record
                   THEN [counted EXCEPT
                           !.highest_score = candies_collected,
                           !.current_streak = @ + 1,
                           !.best_streak = IF self.current_streak + 1 > @
                                           THEN self.current_streak + 1 ELSE @]
                   ELSE counted,
         is_record |-> is_record]

\* PlayerStats::add_game: the updated stats and the returned is_record.
add_game(self, candies_collected, timestamp) ==
    LET is_record == candies_collected > self.highest_score
        streak == self.current_streak + 1
    IN  [stats |->
            [chain_id |-> self.chain_id,
             games_played |-> self.games_played + 1,
             total_candies |-> self.total_candies + candies_collected,
             last_game_timestamp |-> timestamp,
             highest_score |-> IF is_record THEN candies_collected
                               ELSE self.highest_score,
             current_streak |-> IF is_record THEN streak ELSE 0,
             best_streak |-> IF is_record /\ streak > self.best_streak
                             THEN streak ELSE self.best_streak],
         is_record |-> is_record]

\* ------------------------------------------------- Leaderboard Aggregator
TopN == 100

\* MapView::indices: the keys present, in ascending key order.
RECURSIVE Indices(_)
Indices(keys) ==
    IF keys = {} THEN <<>>
    ELSE LET k == CHOOSE x \in keys : \A y \in keys : x <= y
         IN  <<k>> \o Indices(keys \ {k})

\* The comparator on highest_score alone.
SortsBefore_ScoreOnly(a, b) == a.highest_score > b.highest_score

\* The comparator of sort_by: a sorts strictly before b.
SortsBefore(a, b) ==
    \/ a.highest_score > b.highest_score
    \/ /\ a.highest_score = b.highest_score
       /\ a.total_candies > b.total_candies
    \/ /\ a.highest_score = b.highest_score
       /\ a.total_candies = b.total_candies
       /\ a.games_played > b.games_played

\* One step of a stable sort: e goes in front of the first entry it sorts
\* strictly before, behind every entry it ties with.
RECURSIVE StableInsert(_, _)
StableInsert(sorted, e) ==
    IF sorted = <<>> THEN <<e>>
    ELSE IF SortsBefore(e, Head(sorted)) THEN <<e>> \o sorted
    ELSE <<Head(sorted)>> \o StableInsert(Tail(sorted), e)

\* slice::sort_by (a stable sort) under SortsBefore.
RECURSIVE StableSort(_)
StableSort(entries) ==
    IF entries = <<>> THEN <<>>
    ELSE StableInsert(StableSort(SubSeq(entries, 1, Len(entries) - 1)),
                      entries[Len(entries)])

LeaderboardEntryOf(player_chain, stats, names) ==
    [chain_id |-> stats.chain_id,
     player_name |-> IF player_chain \in DOMAIN names
                     THEN Some(names[player_chain]) ELSE None,
     highest_score |-> stats.highest_score,
     games_played |-> stats.games_played,
     total_candies |-> stats.total_candies]

\* rebuild_global_leaderboard: the new global_leaderboard, from the
\* player_stats map and the player_names map.
rebuild_global_leaderboard(stats_map, names) ==
    LET player_chains == Indices(DOMAIN stats_map)
        all_entries == [i \in 1..Len(player_chains) |->
                          LeaderboardEntryOf(player_chains[i],
                                             stats_map[player_chains[i]], names)]
        sorted == StableSort(all_entries)
    IN  SubSeq(sorted, 1, IF Len(sorted) < TopN THEN Len(sorted) ELSE TopN)

\* update_leaderboard_stats that starts from fresh stats every time.
update_leaderboard_stats_Fresh(stats_map, participants, names, player_chain, candies_collected, timestamp) ==
    LET updated == add_game(PlayerStats_new(player_chain), candies_collected,
                            timestamp).stats
        new_map == MapInsert(stats_map, player_chain, updated)
    IN  [player_stats |-> new_map,
         leaderboard_participants |-> participants \cup {player_chain},
         global_leaderboard |-> rebuild_global_leaderboard(new_map, names)]

\* update_leaderboard_stats: the aggregate fields it writes.
update_leaderboard_stats(stats_map, participants, names, player_chain, candies_collected, timestamp) ==
    LET stats == IF player_chain \in DOMAIN stats_map
                 THEN stats_map[player_chain]
                 ELSE PlayerStats_new(player_chain)
        updated == add_game(stats, candies_collected, timestamp).stats
        new_map == MapInsert(stats_map, player_chain, updated)
    IN  [player_stats |-> new_map,
         leaderboard_participants |-> participants \cup {player_chain},
         global_leaderboard |-> rebuild_global_leaderboard(new_map, names)]

\* ------------------------------------------------------------ the network
\* A message in flight: the GameMessage, the chain that sent it and the
\* chain it is addressed to.
Envelope(src, dest, msg) ==
    [src |-> src, dest |-> dest, msg |-> msg]

InFlight == BagToSet(net)

\* ContractRuntime::send_message for every message of the set out.
Send(bag, out) == bag (+) SetToBag(out)

Room(out) == BagCardinality(net) + Cardinality(out) <= MaxInFlight

\* The handler invocation a step records in last.
Invocation(kind, chain, is_message, bouncing, panicked) ==
    [kind |-> kind, chain |-> chain, is_message |-> is_message,
     bouncing |-> bouncing, panicked |-> panicked]

\* ----------------------------------------------------------- instantiate
\* The state of chain c after instantiate with ApplicationParameters
\* {leaderboard_chain_id: param}; with param = None it is also the default
\* state of a chain the application was never instantiated on.
instantiate(c, param) ==
    [sessions |-> EmptyMap,
     session_counter |-> 0,
     player_names |-> EmptyMap,
     my_player_name |-> None,
     global_leaderboard |-> <<>>,
     player_stats |-> EmptyMap,
     leaderboard_participants |-> {},
     is_leaderboard_chain |-> (param # None /\ param[1] = c),
     leaderboard_chain_id |-> param,
     my_sessions |-> <<>>,
     my_stats |-> None,
     my_current_session |-> None]

OptionChain == {None} \cup {Some(c) : c \in Chains}

InitChains(st) ==
    /\ sessions = [c \in Chains |-> st[c].sessions]
    /\ session_counter = [c \in Chains |-> st[c].session_counter]
    /\ player_names = [c \in Chains |-> st[c].player_names]
    /\ my_player_name = [c \in Chains |-> st[c].my_player_name]
    /\ global_leaderboard = [c \in Chains |-> st[c].global_leaderboard]
    /\ player_stats = [c \in Chains |-> st[c].player_stats]
    /\ leaderboard_participants = [c \in Chains |-> st[c].leaderboard_participants]
    /\ is_leaderboard_chain = [c \in Chains |-> st[c].is_leaderboard_chain]
    /\ leaderboard_chain_id = [c \in Chains |-> st[c].leaderboard_chain_id]
    /\ my_sessions = [c \in Chains |-> st[c].my_sessions]
    /\ my_stats = [c \in Chains |-> st[c].my_stats]
    /\ my_current_session = [c \in Chains |-> st[c].my_current_session]

\* The application is created on one chain with its parameters; instantiate
\* runs there, every other chain starts from the default state.
Init ==
    /\ \E creator \in Chains, param \in OptionChain :
          InitChains([c \in Chains |->
                        instantiate(c, IF c = creator THEN param ELSE None)])
    /\ net = EmptyBag
    /\ last = Invocation("instantiate", 0, FALSE, FALSE, FALSE)
    /\ injected = 0
    /\ steps = 0
    /\ saved = TRUE
    /\ acc = PlayerStats_new(1)
    /\ calls = <<>>

\* ------------------------------------------------------ execute_operation
\* Each operation is a function of the chain's state st (a ChainState
\* record), the chain id c = runtime.chain_id() and the operation's inputs;
\* it yields the new state, the set of messages sent and whether it panicked
\* (a panic aborts the operation: nothing is written, nothing is sent).
Done(st, out) == [st |-> st, out |-> out, panicked |-> FALSE]

Panic(st) == [st |-> st, out |-> {}, panicked |-> TRUE]

\* SetupLeaderboard that never takes the leaderboard role.
SetupLeaderboard_NeverAuthority(st, c, leaderboard_chain) ==
    IF st.leaderboard_chain_id # None
    THEN Panic(st)
    ELSE Done([st EXCEPT !.leaderboard_chain_id = Some(leaderboard_chain)], {})

\* SetupLeaderboard without the guard against a second configuration.
SetupLeaderboard_Overwrite(st, c, leaderboard_chain) ==
    Done([st EXCEPT !.leaderboard_chain_id = Some(leaderboard_chain),
                    !.is_leaderboard_chain =
                        IF c = leaderboard_chain THEN TRUE ELSE @],
         {})

SetupLeaderboard(st, c, leaderboard_chain) ==
    IF st.leaderboard_chain_id # None
    THEN Panic(st)
    ELSE Done([st EXCEPT !.leaderboard_chain_id = Some(leaderboard_chain),
                         !.is_leaderboard_chain =
                             IF c = leaderboard_chain THEN TRUE ELSE @],
              {})

\* SetPlayerName that tells the leaderboard chain nothing.
SetPlayerName_Silent(st, c, name) ==
    LET named == [st EXCEPT !.my_player_name = Some(name)]
    IN  IF st.leaderboard_chain_id = None
        THEN Done(named, {})
        ELSE IF c # st.leaderboard_chain_id[1]
        THEN Done(named, {})
        ELSE Done([named EXCEPT !.player_names = MapInsert(@, c, name)], {})

\* SetPlayerName that stores nothing while no leaderboard chain is configured.
SetPlayerName_NeedsAuthority(st, c, name) ==
    LET named == [st EXCEPT !.my_player_name = Some(name)]
    IN  IF st.leaderboard_chain_id = None
        THEN Done(st, {})
        ELSE IF c # st.leaderboard_chain_id[1]
        THEN Done(named,
                  {Envelope(c, st.leaderboard_chain_id[1],
                            [kind |-> "UpdatePlayerName", player_chain |-> c,
                             player_name |-> name])})
        ELSE Done([named EXCEPT !.player_names = MapInsert(@, c, name)], {})

\* SetPlayerName that also records the name in the chain's own name map.
SetPlayerName_AlwaysLocal(st, c, name) ==
    LET named == [st EXCEPT !.my_player_name = Some(name),
                            !.player_names = MapInsert(@, c, name)]
    IN  IF st.leaderboard_chain_id = None
        THEN Done(named, {})
        ELSE IF c # st.leaderboard_chain_id[1]
        THEN Done(named,
                  {Envelope(c, st.leaderboard_chain_id[1],
                            [kind |-> "UpdatePlayerName", player_chain |-> c,
                             player_name |-> name])})
        ELSE Done(named, {})

SetPlayerName(st, c, name) ==
    LET named == [st EXCEPT !.my_player_name = Some(name)]
    IN  IF st.leaderboard_chain_id = None
        THEN Done(named, {})
        ELSE IF c # st.leaderboard_chain_id[1]
        THEN Done(named,
                  {Envelope(c, st.leaderboard_chain_id[1],
                            [kind |-> "UpdatePlayerName", player_chain |-> c,
                             player_name |-> name])})
        ELSE Done([named EXCEPT !.player_names = MapInsert(@, c, name)], {})

\* format!("session_{}_{}", current_chain, session_counter)
SessionId(c, counter) == <<c, counter>>

StartGame(st, c, timestamp) ==
    LET session_id == SessionId(c, st.session_counter)
        session == [session_id |-> session_id,
                    player |-> c,
                    player_name |-> st.my_player_name,
                    start_time |-> timestamp,
                    end_time |-> None,
                    candies_collected |-> 0,
                    is_record |-> FALSE,
                    state |-> "Playing"]
    IN  Done([st EXCEPT !.session_counter = @ + 1,
                        !.sessions = MapInsert(@, session_id, session),
                        !.my_sessions = Append(@, session_id),
                        !.my_current_session = Some(session_id)],
             {})

\* CollectCandy that reports nothing to the leaderboard chain.
CollectCandy_NoMessage(st, c) ==
    IF st.my_current_session = None THEN Done(st, {})
    ELSE LET session_id == st.my_current_session[1]
         IN  IF session_id \notin DOMAIN st.sessions THEN Done(st, {})
             ELSE Done([st EXCEPT !.sessions[session_id].candies_collected = @ + 1],
                       {})

CollectCandy(st, c) ==
    IF st.my_current_session = None THEN Done(st, {})
    ELSE LET session_id == st.my_current_session[1]
         IN  IF session_id \notin DOMAIN st.sessions THEN Done(st, {})
             ELSE Done([st EXCEPT !.sessions[session_id].candies_collected = @ + 1],
                       IF st.leaderboard_chain_id = None THEN {}
                       ELSE {Envelope(c, st.leaderboard_chain_id[1],
                                      [kind |-> "CandyCollected",
                                       session_id |-> session_id,
                                       player_chain |-> c])})

\* The record check that calls every game a record.
IsNewRecord_Always(stats, candies_collected) == TRUE

\* The record check with >= for >.
IsNewRecord_AtLeast(stats, candies_collected) ==
    IF stats # None THEN candies_collected >= stats[1].highest_score
    ELSE TRUE

\* EndGame's record check against the chain's own stats.
IsNewRecord(stats, candies_collected) ==
    IF stats # None THEN candies_collected > stats[1].highest_score
    ELSE TRUE

\* The report sent for every game, record or not.
EndGameMessages_Always(c, leaderboard_chain, session_id, candies_collected, is_new_record) ==
    IF leaderboard_chain # None
    THEN {Envelope(c, leaderboard_chain[1],
                   [kind |-> "GameFinished",
                    session_id |-> session_id,
                    player_chain |-> c,
                    candies_collected |-> candies_collected,
                    is_new_record |-> is_new_record])}
    ELSE {}

\* EndGame's report to the leaderboard chain.
EndGameMessages(c, leaderboard_chain, session_id, candies_collected, is_new_record) ==
    IF is_new_record /\ leaderboard_chain # None
    THEN {Envelope(c, leaderboard_chain[1],
                   [kind |-> "GameFinished",
                    session_id |-> session_id,
                    player_chain |-> c,
                    candies_collected |-> candies_collected,
                    is_new_record |-> is_new_record])}
    ELSE {}

\* EndGame that counts a game in the local stats even without a session.
EndGame_CountsWithoutSession(st, c, timestamp) ==
    LET stats == IF st.my_stats # None THEN st.my_stats[1]
                 ELSE PlayerStats_new(c)
    IN  IF st.my_current_session = None
        THEN Done([st EXCEPT !.my_stats = Some(add_game(stats, 0, timestamp).stats)],
                  {})
        ELSE LET session_id == st.my_current_session[1]
                 candies_collected == st.sessions[session_id].candies_collected
                 is_new_record == IsNewRecord(st.my_stats, candies_collected)
             IN  Done([st EXCEPT
                         !.sessions[session_id].end_time = Some(timestamp),
                         !.sessions[session_id].state = "Finished",
                         !.sessions[session_id].is_record = is_new_record,
                         !.my_stats = Some(add_game(stats, candies_collected,
                                                    timestamp).stats),
                         !.my_current_session = None],
                      EndGameMessages(c, st.leaderboard_chain_id, session_id,
                                      candies_collected, is_new_record))

EndGame(st, c, timestamp) ==
    IF st.my_current_session = None THEN Done(st, {})
    ELSE LET session_id == st.my_current_session[1]
         IN  IF session_id \notin DOMAIN st.sessions THEN Done(st, {})
             ELSE LET candies_collected == st.sessions[session_id].candies_collected
                      is_new_record == IsNewRecord(st.my_stats, candies_collected)
                      stats == IF st.my_stats # None THEN st.my_stats[1]
                               ELSE PlayerStats_new(c)
                  IN  Done([st EXCEPT
                              !.sessions[session_id].end_time = Some(timestamp),
                              !.sessions[session_id].state = "Finished",
                              !.sessions[session_id].is_record = is_new_record,
                              !.my_stats = Some(add_game(stats, candies_collected,
                                                         timestamp).stats),
                              !.my_current_session = None],
                           EndGameMessages(c, st.leaderboard_chain_id, session_id,
                                           candies_collected, is_new_record))

\* GetLeaderboard, GetMyStats, GetGameSession
Query(st) == Done(st, {})

\* The reset that forgets to clear the participant set.
ResetClear_KeepParticipants(st) ==
    [st EXCEPT !.global_leaderboard = <<>>,
               !.player_stats = EmptyMap,
               !.session_counter = 0]

\* What ResetLeaderboard clears on the leaderboard chain.
ResetClear(st) ==
    [st EXCEPT !.global_leaderboard = <<>>,
               !.player_stats = EmptyMap,
               !.leaderboard_participants = {},
               !.session_counter = 0]

\* ResetLeaderboard that notifies every participant, itself included.
ResetLeaderboard_ToAll(st, c) ==
    IF ~st.is_leaderboard_chain
    THEN Panic(st)
    ELSE Done(ResetClear(st),
              {Envelope(c, player_chain, [kind |-> "LeaderboardReset"]) :
                  player_chain \in st.leaderboard_participants})

\* ResetLeaderboard without the role check.
ResetLeaderboard_Unguarded(st, c) ==
    Done(ResetClear(st),
         {Envelope(c, player_chain, [kind |-> "LeaderboardReset"]) :
             player_chain \in st.leaderboard_participants \ {c}})

ResetLeaderboard(st, c) ==
    IF ~st.is_leaderboard_chain
    THEN Panic(st)
    ELSE Done(ResetClear(st),
              {Envelope(c, player_chain, [kind |-> "LeaderboardReset"]) :
                  player_chain \in st.leaderboard_participants \ {c}})

\* -------------------------------------------------------- execute_message
\* The local stats zeroed but for games_played.
ClearLocalStats_KeepGames(stats) ==
    IF stats = None THEN None
    ELSE Some([stats[1] EXCEPT !.highest_score = 0,
                               !.total_candies = 0,
                               !.current_streak = 0,
                               !.best_streak = 0])

\* LeaderboardReset on a player chain: stats zeroed in place, when present.
ClearLocalStats(stats) ==
    IF stats = None THEN None
    ELSE Some([stats[1] EXCEPT !.highest_score = 0,
                               !.games_played = 0,
                               !.total_candies = 0,
                               !.current_streak = 0,
                               !.best_streak = 0])

\* The match without the role check of GameFinished and UpdateLeaderboard.
HandleMessage_AnyRole(st, msg, timestamp) ==
    CASE msg.kind = "StartGame" -> st
      [] msg.kind = "CandyCollected" -> st
      [] msg.kind \in {"GameFinished", "UpdateLeaderboard"} ->
            LET agg == update_leaderboard_stats(
                          st.player_stats, st.leaderboard_participants,
                          st.player_names, msg.player_chain,
                          msg.candies_collected, timestamp)
            IN  [st EXCEPT
                   !.player_stats = agg.player_stats,
                   !.leaderboard_participants = agg.leaderboard_participants,
                   !.global_leaderboard = agg.global_leaderboard]
      [] msg.kind = "UpdatePlayerName" ->
            IF ~st.is_leaderboard_chain THEN st
            ELSE [st EXCEPT !.player_names =
                               MapInsert(@, msg.player_chain, msg.player_name)]
      [] msg.kind = "LeaderboardReset" ->
            IF st.is_leaderboard_chain THEN st
            ELSE [st EXCEPT !.my_stats = ClearLocalStats(@),
                            !.global_leaderboard = <<>>]

\* The match with GameFinished aggregated only when it says is_new_record.
HandleMessage_RecordsOnly(st, msg, timestamp) ==
    CASE msg.kind = "StartGame" -> st
      [] msg.kind = "CandyCollected" -> st
      [] msg.kind \in {"GameFinished", "UpdateLeaderboard"} ->
            IF ~st.is_leaderboard_chain THEN st
            ELSE IF msg.kind = "GameFinished" /\ ~msg.is_new_record THEN st
            ELSE LET agg == update_leaderboard_stats(
                               st.player_stats, st.leaderboard_participants,
                               st.player_names, msg.player_chain,
                               msg.candies_collected, timestamp)
                 IN  [st EXCEPT
                        !.player_stats = agg.player_stats,
                        !.leaderboard_participants = agg.leaderboard_participants,
                        !.global_leaderboard = agg.global_leaderboard]
      [] msg.kind = "UpdatePlayerName" ->
            IF ~st.is_leaderboard_chain THEN st
            ELSE [st EXCEPT !.player_names =
                               MapInsert(@, msg.player_chain, msg.player_name)]
      [] msg.kind = "LeaderboardReset" ->
            IF st.is_leaderboard_chain THEN st
            ELSE [st EXCEPT !.my_stats = ClearLocalStats(@),
                            !.global_leaderboard = <<>>]

\* A handler that stores a session for a StartGame message instead of
\* ignoring it.
HandleMessage_StartsSession(st, msg, timestamp) ==
    CASE msg.kind = "StartGame" ->
            [st EXCEPT !.sessions =
                MapInsert(@, msg.session_id,
                          [session_id |-> msg.session_id,
                           player |-> msg.player_chain,
                           player_name |-> msg.player_name,
                           start_time |-> timestamp,
                           end_time |-> None,
                           candies_collected |-> 0,
                           is_record |-> FALSE,
                           state |-> "Playing"])]
      [] msg.kind = "CandyCollected" -> st
      [] msg.kind \in {"GameFinished", "UpdateLeaderboard"} ->
            IF ~st.is_leaderboard_chain THEN st
            ELSE LET agg == update_leaderboard_stats(
                               st.player_stats, st.leaderboard_participants,
                               st.player_names, msg.player_chain,
                               msg.candies_collected, timestamp)
                 IN  [st EXCEPT
                        !.player_stats = agg.player_stats,
                        !.leaderboard_participants = agg.leaderboard_participants,
                        !.global_leaderboard = agg.global_leaderboard]
      [] msg.kind = "UpdatePlayerName" ->
            IF ~st.is_leaderboard_chain THEN st
            ELSE [st EXCEPT !.player_names =
                               MapInsert(@, msg.player_chain, msg.player_name)]
      [] msg.kind = "LeaderboardReset" ->
            IF st.is_leaderboard_chain THEN st
            ELSE [st EXCEPT !.my_stats = ClearLocalStats(@),
                            !.global_leaderboard = <<>>]

\* The match on the message kind, past the bounce check.
HandleMessage(st, msg, timestamp) ==
    CASE msg.kind = "StartGame" -> st
      [] msg.kind = "CandyCollected" -> st
      [] msg.kind \in {"GameFinished", "UpdateLeaderboard"} ->
            IF ~st.is_leaderboard_chain THEN st
            ELSE LET agg == update_leaderboard_stats(
                               st.player_stats, st.leaderboard_participants,
                               st.player_names, msg.player_chain,
                               msg.candies_collected, timestamp)
                 IN  [st EXCEPT
                        !.player_stats = agg.player_stats,
                        !.leaderboard_participants = agg.leaderboard_participants,
                        !.global_leaderboard = agg.global_leaderboard]
      [] msg.kind = "UpdatePlayerName" ->
            IF ~st.is_leaderboard_chain THEN st
            ELSE [st EXCEPT !.player_names =
                               MapInsert(@, msg.player_chain, msg.player_name)]
      [] msg.kind = "LeaderboardReset" ->
            IF st.is_leaderboard_chain THEN st
            ELSE [st EXCEPT !.my_stats = ClearLocalStats(@),
                            !.global_leaderboard = <<>>]

\* execute_message without the bounce check.
execute_message_NoBounceCheck(st, msg, is_bouncing, timestamp) ==
    Done(HandleMessage(st, msg, timestamp), {})

\* execute_message: a bouncing message returns before the match.  No branch
\* sends a message.
execute_message(st, msg, is_bouncing, timestamp) ==
    IF is_bouncing THEN Done(st, {})
    ELSE Done(HandleMessage(st, msg, timestamp), {})

\* ------------------------------------------------------------------ steps
\* One handler invocation on chain c runs to completion: its writes are
\* saved, its messages are put in flight.
Commit(c, res) ==
    /\ sessions' = [sessions EXCEPT ![c] = res.st.sessions]
    /\ session_counter' = [session_counter EXCEPT ![c] = res.st.session_counter]
    /\ player_names' = [player_names EXCEPT ![c] = res.st.player_names]
    /\ my_player_name' = [my_player_name EXCEPT ![c] = res.st.my_player_name]
    /\ global_leaderboard' = [global_leaderboard EXCEPT ![c] = res.st.global_leaderboard]
    /\ player_stats' = [player_stats EXCEPT ![c] = res.st.player_stats]
    /\ leaderboard_participants' =
          [leaderboard_participants EXCEPT ![c] = res.st.leaderboard_participants]
    /\ is_leaderboard_chain' =
          [is_leaderboard_chain EXCEPT ![c] = res.st.is_leaderboard_chain]
    /\ leaderboard_chain_id' =
          [leaderboard_chain_id EXCEPT ![c] = res.st.leaderboard_chain_id]
    /\ my_sessions' = [my_sessions EXCEPT ![c] = res.st.my_sessions]
    /\ my_stats' = [my_stats EXCEPT ![c] = res.st.my_stats]
    /\ my_current_session' = [my_current_session EXCEPT ![c] = res.st.my_current_session]

Operate(c, kind, res) ==
    /\ Room(res.out)
    /\ Commit(c, res)
    /\ net' = Send(net, res.out)
    /\ last' = Invocation(kind, c, FALSE, FALSE, res.panicked)
    /\ saved' = TRUE
    /\ UNCHANGED <<injected, acc, calls>>

DoSetupLeaderboard(c) ==
    \E leaderboard_chain \in Chains :
        Operate(c, "SetupLeaderboard",
                SetupLeaderboard(ChainState(c), c, leaderboard_chain))

DoSetPlayerName(c) ==
    \E name \in Names :
        Operate(c, "SetPlayerName", SetPlayerName(ChainState(c), c, name))

\* The number of StartGame operations executed so far, on all chains.
RECURSIVE SessionsStarted(_)
SessionsStarted(cs) ==
    IF cs = {} THEN 0
    ELSE LET c == CHOOSE x \in cs : TRUE
         IN  Len(my_sessions[c]) + SessionsStarted(cs \ {c})

DoStartGame(c) ==
    /\ SessionsStarted(Chains) < MaxSessions
    /\ \E timestamp \in Times :
          Operate(c, "StartGame", StartGame(ChainState(c), c, timestamp))

DoCollectCandy(c) ==
    /\ \A id \in DOMAIN sessions[c] : sessions[c][id].candies_collected < MaxCandies
    /\ Operate(c, "CollectCandy", CollectCandy(ChainState(c), c))

DoEndGame(c) ==
    \E timestamp \in Times :
        Operate(c, "EndGame", EndGame(ChainState(c), c, timestamp))

DoQuery(c) == Operate(c, "Query", Query(ChainState(c)))

DoResetLeaderboard(c) ==
    Operate(c, "ResetLeaderboard", ResetLeaderboard(ChainState(c), c))

\* The transport delivers one message in flight to its destination.
Deliver(e) ==
    /\ \E timestamp \in Times :
          Commit(e.dest, execute_message(ChainState(e.dest), e.msg, FALSE, timestamp))
    /\ net' = net (-) SetToBag({e})
    /\ last' = Invocation(e.msg.kind, e.dest, TRUE, FALSE, FALSE)
    /\ saved' = TRUE
    /\ UNCHANGED <<injected, acc, calls>>

\* The transport could not deliver a message in flight: it comes back to the
\* chain that sent it, where execute_message sees it as bouncing.
Bounce(e) ==
    /\ \E timestamp \in Times :
          Commit(e.src, execute_message(ChainState(e.src), e.msg, TRUE, timestamp))
    /\ net' = net (-) SetToBag({e})
    /\ last' = Invocation(e.msg.kind, e.src, TRUE, TRUE, FALSE)
    /\ saved' = TRUE
    /\ UNCHANGED <<injected, acc, calls>>

\* The two message kinds no operation sends: UpdateLeaderboard, kept for
\* administrative injection, and the reserved StartGame.
InjectedMessages ==
    {[kind |-> "UpdateLeaderboard", player_chain |-> p,
      candies_collected |-> n, is_new_record |-> r] :
        p \in Chains, n \in 0..MaxCandies, r \in BOOLEAN}
    \cup {[kind |-> "StartGame", session_id |-> SessionId(p, 0),
           player_chain |-> p, player_name |-> None] : p \in Chains}

\* Such a message arrives at chain c from outside, bouncing or not.
Inject(c) ==
    /\ injected < MaxInjected
    /\ \E msg \in InjectedMessages, is_bouncing \in BOOLEAN, timestamp \in Times :
          /\ Commit(c, execute_message(ChainState(c), msg, is_bouncing, timestamp))
          /\ last' = Invocation(msg.kind, c, TRUE, is_bouncing, FALSE)
    /\ injected' = injected + 1
    /\ saved' = TRUE
    /\ UNCHANGED <<net, acc, calls>>

\* A step that counts against the bound on handler invocations.
Counted(A) ==
    /\ steps < MaxSteps
    /\ steps' = steps + 1
    /\ A

\* Every interleaving of at most MaxSteps handler invocations, of every
\* handler of the contract, on any chain.
Next ==
    \/ \E c \in Chains : Counted(DoSetupLeaderboard(c))
    \/ \E c \in Chains : Counted(DoSetPlayerName(c))
    \/ \E c \in Chains : Counted(DoStartGame(c))
    \/ \E c \in Chains : Counted(DoCollectCandy(c))
    \/ \E c \in Chains : Counted(DoEndGame(c))
    \/ \E c \in Chains : Counted(DoQuery(c))
    \/ \E c \in Chains : Counted(DoResetLeaderboard(c))
    \/ \E e \in InFlight : Counted(Deliver(e))
    \/ \E e \in InFlight : Counted(Bounce(e))
    \/ \E c \in Chains : Counted(Inject(c))

Spec == Init /\ [][Next]_vars

\* ------------------------------------------------- the game protocol alone
\* Chains are configured and games are played, and every message sent is
\* delivered: no reset, no bounce, no injected message, no name.
Uncounted(A) == A /\ UNCHANGED steps

NextPlay ==
    \/ \E c \in Chains : Uncounted(DoSetupLeaderboard(c))
    \/ \E c \in Chains : Uncounted(DoStartGame(c))
    \/ \E c \in Chains : Uncounted(DoCollectCandy(c))
    \/ \E c \in Chains : Uncounted(DoEndGame(c))
    \/ \E e \in InFlight : Uncounted(Deliver(e))

SpecPlay == Init /\ [][NextPlay]_vars

\* ------------------------------------------------- games across a reset
\* Chains are configured, games are played, the leaderboard is reset, and
\* every message sent is delivered, in any order: no bounce, no injected
\* message, no name.
NextReset ==
    \/ \E c \in Chains : Uncounted(DoSetupLeaderboard(c))
    \/ \E c \in Chains : Uncounted(DoStartGame(c))
    \/ \E c \in Chains : Uncounted(DoCollectCandy(c))
    \/ \E c \in Chains : Uncounted(DoEndGame(c))
    \/ \E c \in Chains : Uncounted(DoResetLeaderboard(c))
    \/ \E e \in InFlight : Uncounted(Deliver(e))

SpecReset == Init /\ [][NextReset]_vars

\* ------------------------------------------------------- a failing store
\* An operation runs to its end and state.save() fails in store: the error
\* is discarded (let _ =), the handler returns normally, what it wrote to
\* the views is lost and the messages it sent are in flight.
OperateUnsaved(c, kind, res) ==
    /\ ~res.panicked
    /\ res.st # ChainState(c)
    /\ Room(res.out)
    /\ UNCHANGED chainVars
    /\ net' = Send(net, res.out)
    /\ last' = Invocation(kind, c, FALSE, FALSE, FALSE)
    /\ saved' = FALSE
    /\ UNCHANGED <<injected, acc, calls>>

StoreFails(c) ==
    \E timestamp \in Times :
        \/ OperateUnsaved(c, "StartGame", StartGame(ChainState(c), c, timestamp))
        \/ OperateUnsaved(c, "CollectCandy", CollectCandy(ChainState(c), c))
        \/ OperateUnsaved(c, "EndGame", EndGame(ChainState(c), c, timestamp))

\* At most MaxSteps handler invocations: games are played and messages
\* delivered, and the save of any operation may fail.
NextStore ==
    \/ \E c \in Chains : Counted(DoStartGame(c))
    \/ \E c \in Chains : Counted(DoCollectCandy(c))
    \/ \E c \in Chains : Counted(DoEndGame(c))
    \/ \E e \in InFlight : Counted(Deliver(e))
    \/ \E c \in Chains : Counted(StoreFails(c))

SpecStore == Init /\ [][NextStore]_vars

\* ------------------------------------------------------ add_game in isolation
InitAddGame ==
    /\ InitChains([c \in Chains |-> instantiate(c, None)])
    /\ net = EmptyBag
    /\ last = Invocation("instantiate", 0, FALSE, FALSE, FALSE)
    /\ injected = 0
    /\ steps = 0
    /\ saved = TRUE
    /\ acc = PlayerStats_new(1)
    /\ calls = <<>>

\* One more add_game call on acc, with any candies argument.
NextAddGame ==
    /\ Len(calls) < MaxCalls
    /\ \E candies_collected \in 0..MaxScore, timestamp \in Times :
          /\ acc' = add_game(acc, candies_collected, timestamp).stats
          /\ calls' = Append(calls, candies_collected)
    /\ UNCHANGED <<chainVars, net, last, saved, injected, steps>>

SpecAddGame == InitAddGame /\ [][NextAddGame]_vars

\* ================================================================ claims
\* Every GameMessage value within the bounds.
SessionIds == {SessionId(c, n) : c \in Chains, n \in 0..MaxSessions}

GameMessages ==
    {[kind |-> "StartGame", session_id |-> id, player_chain |-> p,
      player_name |-> nm] :
        id \in SessionIds, p \in Chains, nm \in {None} \cup {Some(x) : x \in Names}}
    \cup {[kind |-> "GameFinished", session_id |-> id, player_chain |-> p,
           candies_collected |-> n, is_new_record |-> r] :
             id \in SessionIds, p \in Chains, n \in 0..MaxCandies, r \in BOOLEAN}
    \cup {[kind |-> "UpdateLeaderboard", player_chain |-> p,
           candies_collected |-> n, is_new_record |-> r] :
             p \in Chains, n \in 0..MaxCandies, r \in BOOLEAN}
    \cup {[kind |-> "UpdatePlayerName", player_chain |-> p, player_name |-> x] :
             p \in Chains, x \in Names}
    \cup {[kind |-> "LeaderboardReset"]}
    \cup {[kind |-> "CandyCollected", session_id |-> id, player_chain |-> p] :
             id \in SessionIds, p \in Chains}

\* The step put no message in flight.
NothingSent == \A e \in BagToSet(net') : CopiesIn(e, net') <= CopiesIn(e, net)

\* The step put exactly the messages of the set out in flight.
SentExactly(out) == net' = net (+) SetToBag(out)

\* The step is operation kind executed on chain c.
IsOperation(kind, c) ==
    /\ last'.kind = kind
    /\ last'.chain = c
    /\ ~last'.is_message

\* ------------------------------------------------------------------- C1
\* C1: in every reachable state, on every chain that is the leaderboard
\* chain, the published global_leaderboard equals rebuild_global_leaderboard
\* applied to the current player_stats and player_names maps (same entries,
\* same player names, same order).
C1_LeaderboardIsRebuild ==
    \A c \in Chains :
        is_leaderboard_chain[c] =>
            global_leaderboard[c] =
                rebuild_global_leaderboard(player_stats[c], player_names[c])

\* ------------------------------------------------------------------- C2
\* C2: on any single chain no two StartGame operations allocate the same
\* session id: my_sessions, which records every id allocated, never holds
\* an id twice.
C2_SessionIdsUnique ==
    \A c \in Chains :
        \A i, j \in 1..Len(my_sessions[c]) :
            my_sessions[c][i] = my_sessions[c][j] => i = j

\* ------------------------------------------------------------------- C3
\* C3: Finished is terminal: a stored session that is Finished is, after
\* any step, still stored and Finished with the same candies_collected,
\* end_time and is_record.
C3_FinishedIsTerminal ==
    [][\A c \in Chains :
         \A id \in DOMAIN sessions[c] :
            sessions[c][id].state = "Finished" =>
                /\ id \in DOMAIN sessions'[c]
                /\ sessions'[c][id].state = "Finished"
                /\ sessions'[c][id].candies_collected = sessions[c][id].candies_collected
                /\ sessions'[c][id].end_time = sessions[c][id].end_time
                /\ sessions'[c][id].is_record = sessions[c][id].is_record]_vars

\* ------------------------------------------------------------------- C4
\* C4: for every message kind and every chain, whatever its role,
\* execute_message on a bouncing message returns the chain state unchanged
\* and sends nothing; and every step that processes a bouncing message
\* leaves the state of every chain unchanged and puts no message in flight.
C4_BouncedMessageChangesNothing ==
    /\ [](\A c \in Chains, msg \in GameMessages, timestamp \in Times :
            execute_message(ChainState(c), msg, TRUE, timestamp)
                = Done(ChainState(c), {}))
    /\ [][(last'.is_message /\ last'.bouncing) =>
             (UNCHANGED chainVars /\ NothingSent)]_vars

\* A bouncing GameFinished or UpdateLeaderboard has just been processed on a
\* leaderboard chain, where the same message not bouncing is aggregated.
C4_Witness ==
    /\ last.is_message
    /\ last.bouncing
    /\ last.kind \in {"GameFinished", "UpdateLeaderboard"}
    /\ is_leaderboard_chain[last.chain]

\* ------------------------------------------------------------------- C5
\* The chain's local highest_score; 0, as in PlayerStats::new, while the
\* chain has no stats yet.
LocalHighest(c) ==
    IF my_stats[c] = None THEN 0 ELSE my_stats[c][1].highest_score

\* The step is an EndGame on chain c that found a current session.
EndsSession(c) ==
    /\ IsOperation("EndGame", c)
    /\ my_current_session[c] # None
    /\ my_current_session[c][1] \in DOMAIN sessions[c]

CurrentCandies(c) == sessions[c][my_current_session[c][1]].candies_collected

\* C5 as stated: an EndGame whose current session has candies_collected <=
\* the chain's local highest_score sends no message.
C5_NoMessageAtOrBelowHighest ==
    [][\A c \in Chains :
         (EndsSession(c) /\ CurrentCandies(c) <= LocalHighest(c))
             => NothingSent]_vars

\* C5 amended: on a chain that already has local stats (it ended a game
\* before), an EndGame whose current session has candies_collected <= the
\* local highest_score sends no message.
C5_NoMessageForNonRecord ==
    [][\A c \in Chains :
         (EndsSession(c) /\ my_stats[c] # None
            /\ CurrentCandies(c) <= my_stats[c][1].highest_score)
             => NothingSent]_vars

\* An EndGame has just finished a session that is not a record, on a chain
\* configured with a leaderboard chain.
C5_Witness ==
    /\ last.kind = "EndGame"
    /\ ~last.is_message
    /\ leaderboard_chain_id[last.chain] # None
    /\ my_current_session[last.chain] = None
    /\ my_sessions[last.chain] # <<>>
    /\ LET id == my_sessions[last.chain][Len(my_sessions[last.chain])]
       IN  /\ sessions[last.chain][id].state = "Finished"
           /\ ~sessions[last.chain][id].is_record

\* ------------------------------------------------------------------- C6
\* The GameFinished message EndGame on chain c sends for its current
\* session, addressed to dest.
ExpectedGameFinished(c, dest) ==
    Envelope(c, dest,
             [kind |-> "GameFinished",
              session_id |-> my_current_session[c][1],
              player_chain |-> c,
              candies_collected |-> CurrentCandies(c),
              is_new_record |-> TRUE])

\* C6 as stated: an EndGame with a current session sends a GameFinished
\* message if and only if the session's is_record is true, and then exactly
\* one, carrying the session id, the chain's id, the final candies_collected
\* and is_new_record = true.
C6_GameFinishedIffRecord ==
    [][\A c \in Chains :
         EndsSession(c) =>
            IF sessions'[c][my_current_session[c][1]].is_record
            THEN \E dest \in Chains : SentExactly({ExpectedGameFinished(c, dest)})
            ELSE NothingSent]_vars

\* C6 amended: on a chain whose leaderboard_chain_id is Some(A), an EndGame
\* with a current session sends exactly one GameFinished message, to A, with
\* those fields, if the session's is_record is true, and nothing otherwise;
\* on a chain whose leaderboard_chain_id is None it sends nothing.
C6_GameFinishedIffRecordWhenConfigured ==
    [][\A c \in Chains :
         EndsSession(c) =>
            IF /\ sessions'[c][my_current_session[c][1]].is_record
               /\ leaderboard_chain_id[c] # None
            THEN SentExactly({ExpectedGameFinished(c, leaderboard_chain_id[c][1])})
            ELSE NothingSent]_vars

\* An EndGame has just finished a record session and its GameFinished
\* message is in flight to the leaderboard chain.
C6_Witness ==
    /\ last.kind = "EndGame"
    /\ ~last.is_message
    /\ \E e \in InFlight :
          /\ e.msg.kind = "GameFinished"
          /\ e.src = last.chain
          /\ leaderboard_chain_id[last.chain] = Some(e.dest)
          /\ e.msg.session_id \in DOMAIN sessions[last.chain]
          /\ sessions[last.chain][e.msg.session_id].is_record
          /\ sessions[last.chain][e.msg.session_id].state = "Finished"
          /\ e.msg.candies_collected > 0

\* ------------------------------------------------------------------- C7
\* No GameFinished message sent by chain p is still in flight.
RecordsDelivered(p) ==
    \A e \in InFlight : ~(e.msg.kind = "GameFinished" /\ e.src = p)

\* The leaderboard chain a reports for p the highest_score p holds locally.
RecordReported(a, p) ==
    /\ p \in DOMAIN player_stats[a]
    /\ player_stats[a][p].highest_score = my_stats[p][1].highest_score

\* C7, for runs without reset, bounce or injected message (SpecPlay): for
\* every chain p configured with leaderboard chain a, whatever operations p
\* executed, once no GameFinished message of p is in flight any more (every
\* one it sent was delivered), a's player_stats[p].highest_score equals p's
\* local highest_score. A state that violates this and in which p stops
\* operating violates the claim's "eventually": nothing but a message of p
\* changes a's entry for p.
C7_RecordNeverUnderReported ==
    \A p \in Chains, a \in Chains :
        (/\ is_leaderboard_chain[a]
         /\ leaderboard_chain_id[p] = Some(a)
         /\ my_stats[p] # None
         /\ RecordsDelivered(p))
            => RecordReported(a, p)

\* ------------------------------------------------------------------- C8
\* The aggregate of chain a: what update_leaderboard_stats and rebuild write.
Aggregate(st) ==
    [player_stats |-> st.player_stats,
     leaderboard_participants |-> st.leaderboard_participants,
     global_leaderboard |-> st.global_leaderboard]

\* The chain state after execute_message on a message that is not bouncing.
After(st, msg, timestamp) == execute_message(st, msg, FALSE, timestamp).st

\* C8: delivering a GameFinished message in flight to a leaderboard chain
\* twice leaves player_stats and the published leaderboard as delivering it
\* once does.
C8_DuplicateDeliveryIdempotent ==
    \A e \in InFlight, t1 \in Times, t2 \in Times :
        (e.msg.kind = "GameFinished" /\ is_leaderboard_chain[e.dest]) =>
            Aggregate(After(After(ChainState(e.dest), e.msg, t1), e.msg, t2))
                = Aggregate(After(ChainState(e.dest), e.msg, t1))

\* ------------------------------------------------------------------- C9
\* The GameFinished and UpdateLeaderboard messages within the bounds, each
\* GameFinished for its sender's first session.
AggregatorMessages ==
    {m \in GameMessages :
        \/ m.kind = "UpdateLeaderboard"
        \/ m.kind = "GameFinished" /\ m.session_id = SessionId(m.player_chain, 0)}

\* What the published leaderboard is computed from, and the leaderboard.
Published(st) ==
    [stats |-> [p \in DOMAIN st.player_stats |->
                  <<st.player_stats[p].highest_score,
                    st.player_stats[p].total_candies,
                    st.player_stats[p].games_played>>],
     leaderboard_participants |-> st.leaderboard_participants,
     global_leaderboard |-> st.global_leaderboard]

\* C9: from every reachable state of a leaderboard chain, any two
\* GameFinished/UpdateLeaderboard messages, from any chains, leave the same
\* published leaderboard (and the same scores, totals and game counts behind
\* it) whichever arrives first; hence so does any set of them in any order.
C9_ArrivalOrderIrrelevant ==
    \A a \in Chains :
        is_leaderboard_chain[a] =>
            \A m1 \in AggregatorMessages, m2 \in AggregatorMessages :
                \A t1 \in Times, t2 \in Times :
                    Published(After(After(ChainState(a), m1, t1), m2, t2))
                        = Published(After(After(ChainState(a), m2, t1), m1, t2))

\* A leaderboard chain has just aggregated a message and publishes two
\* players with different scores: a later message for the lower one can
\* change the order of the list.
C9_Witness ==
    /\ last.is_message
    /\ ~last.bouncing
    /\ last.kind \in {"GameFinished", "UpdateLeaderboard"}
    /\ is_leaderboard_chain[last.chain]
    /\ Len(global_leaderboard[last.chain]) = 2
    /\ global_leaderboard[last.chain][1].highest_score
          > global_leaderboard[last.chain][2].highest_score

\* ------------------------------------------------------------------ C10
RECURSIVE SeqMax(_)
SeqMax(q) ==
    IF q = <<>> THEN 0
    ELSE LET m == SeqMax(Tail(q)) IN IF Head(q) > m THEN Head(q) ELSE m

RECURSIVE SeqSum(_)
SeqSum(q) == IF q = <<>> THEN 0 ELSE Head(q) + SeqSum(Tail(q))

\* C10: after any sequence of add_game calls on a fresh PlayerStats,
\* highest_score is the maximum candies argument of the sequence,
\* games_played the number of calls and total_candies the sum of the
\* arguments.
C10_AddGameAccumulates ==
    /\ acc.highest_score = SeqMax(calls)
    /\ acc.games_played = Len(calls)
    /\ acc.total_candies = SeqSum(calls)

\* MaxCalls calls were made, and a call after the one that set the record
\* carried fewer candies.
C10_Witness ==
    /\ Len(calls) = MaxCalls
    /\ \E i \in 1..Len(calls), j \in 1..Len(calls) :
          i < j /\ calls[i] > calls[j] /\ calls[i] = SeqMax(calls)

\* ------------------------------------------------------------------ C11
\* C11: SetupLeaderboard on a chain whose leaderboard_chain_id is already
\* Some panics, for every argument, with the chain state unchanged and
\* nothing sent; and once a chain's leaderboard_chain_id is Some, no step
\* changes it or the chain's is_leaderboard_chain.
C11_RoleSetAtMostOnce ==
    /\ [](\A c \in Chains, leaderboard_chain \in Chains :
            leaderboard_chain_id[c] # None =>
                SetupLeaderboard(ChainState(c), c, leaderboard_chain)
                    = Panic(ChainState(c)))
    /\ [][\A c \in Chains :
             leaderboard_chain_id[c] # None =>
                /\ leaderboard_chain_id'[c] = leaderboard_chain_id[c]
                /\ is_leaderboard_chain'[c] = is_leaderboard_chain[c]
                /\ IsOperation("SetupLeaderboard", c) =>
                      (last'.panicked /\ UNCHANGED chainVars /\ NothingSent)]_vars

\* A second SetupLeaderboard has just been refused on a chain that was
\* configured as a player chain of another chain.
C11_Witness ==
    /\ last.kind = "SetupLeaderboard"
    /\ ~last.is_message
    /\ last.panicked
    /\ leaderboard_chain_id[last.chain] # None
    /\ leaderboard_chain_id[last.chain] # Some(last.chain)
    /\ ~is_leaderboard_chain[last.chain]

\* ------------------------------------------------------------------ C12
\* C12: ResetLeaderboard on a chain whose is_leaderboard_chain is false
\* panics: the state of the chain (player_stats, participants, leaderboard,
\* session counter, sessions, local stats and the rest) and of every other
\* chain is unchanged, and no message is sent.
C12_ResetRefusedOffAuthority ==
    /\ [](\A c \in Chains :
            ~is_leaderboard_chain[c] =>
                ResetLeaderboard(ChainState(c), c) = Panic(ChainState(c)))
    /\ [][\A c \in Chains :
             (IsOperation("ResetLeaderboard", c) /\ ~is_leaderboard_chain[c]) =>
                (last'.panicked /\ UNCHANGED chainVars /\ NothingSent)]_vars

\* A ResetLeaderboard has just been refused on a chain that is not the
\* leaderboard chain and has allocated a session and holds local stats,
\* which a reset would have touched.
C12_Witness ==
    /\ last.kind = "ResetLeaderboard"
    /\ ~last.is_message
    /\ last.panicked
    /\ ~is_leaderboard_chain[last.chain]
    /\ session_counter[last.chain] > 0
    /\ my_stats[last.chain] # None

\* ------------------------------------------------------------------ C13
\* C13: a ResetLeaderboard on a leaderboard chain c whose participant set
\* is S leaves c's player_stats, leaderboard_participants and
\* global_leaderboard empty and puts in flight exactly one LeaderboardReset
\* message for every member of S other than c, and nothing else: nothing
\* for a chain outside S, nothing for c.
C13_ResetClearsAndNotifies ==
    [][\A c \in Chains :
         (IsOperation("ResetLeaderboard", c) /\ is_leaderboard_chain[c]) =>
            /\ ~last'.panicked
            /\ player_stats'[c] = EmptyMap
            /\ leaderboard_participants'[c] = {}
            /\ global_leaderboard'[c] = <<>>
            /\ SentExactly({Envelope(c, p, [kind |-> "LeaderboardReset"]) :
                              p \in leaderboard_participants[c] \ {c}})]_vars

\* A leaderboard chain that had reported a game of its own has just been
\* reset and its LeaderboardReset for another chain is in flight, once.
C13_Witness ==
    /\ last.kind = "ResetLeaderboard"
    /\ ~last.is_message
    /\ ~last.panicked
    /\ my_stats[last.chain] # None
    /\ leaderboard_chain_id[last.chain] = Some(last.chain)
    /\ \E e \in InFlight :
          /\ e.msg.kind = "LeaderboardReset"
          /\ e.src = last.chain
          /\ e.dest # last.chain
          /\ CopiesIn(e, net) = 1

\* ------------------------------------------------------------------ C14
\* The message kind is restricted to a role the chain with this
\* is_leaderboard_chain flag does not hold.
WrongRole(kind, is_leaderboard) ==
    \/ /\ kind \in {"CandyCollected", "GameFinished", "UpdateLeaderboard",
                     "UpdatePlayerName"}
       /\ ~is_leaderboard
    \/ /\ kind = "LeaderboardReset"
       /\ is_leaderboard

\* C14: CandyCollected, GameFinished, UpdateLeaderboard and UpdatePlayerName
\* on a chain that is not the leaderboard chain, and LeaderboardReset on a
\* leaderboard chain, complete without panic, leave the whole chain state
\* unchanged and send nothing: for every such message value on every
\* reachable chain state, and on every step that processes one.
C14_WrongRoleMessageIgnored ==
    /\ [](\A c \in Chains, msg \in GameMessages, timestamp \in Times :
            WrongRole(msg.kind, is_leaderboard_chain[c]) =>
                execute_message(ChainState(c), msg, FALSE, timestamp)
                    = Done(ChainState(c), {}))
    /\ [][(/\ last'.is_message
           /\ ~last'.bouncing
           /\ WrongRole(last'.kind, is_leaderboard_chain[last'.chain])) =>
             (~last'.panicked /\ UNCHANGED chainVars /\ NothingSent)]_vars

\* A chain that is not the leaderboard chain has just processed a
\* GameFinished or UpdateLeaderboard message that was not bouncing.
C14_Witness ==
    /\ last.is_message
    /\ ~last.bouncing
    /\ ~last.panicked
    /\ last.kind \in {"GameFinished", "UpdateLeaderboard"}
    /\ ~is_leaderboard_chain[last.chain]

\* ------------------------------------------------------------------ C15
\* The local stats hold 0 in the five counters a reset zeroes; a chain with
\* no local stats holds no counter at all.
LocalStatsZeroed(stats) ==
    stats # None =>
        /\ stats[1].highest_score = 0
        /\ stats[1].games_played = 0
        /\ stats[1].total_candies = 0
        /\ stats[1].current_streak = 0
        /\ stats[1].best_streak = 0

\* What C15 says of the chain state after a LeaderboardReset, given before.
ResetOnPlayerChain(before, after) ==
    /\ LocalStatsZeroed(after.my_stats)
    /\ (after.my_stats = None) = (before.my_stats = None)
    /\ after.global_leaderboard = <<>>
    /\ after.sessions = before.sessions
    /\ after.my_sessions = before.my_sessions
    /\ after.my_current_session = before.my_current_session
    /\ after.session_counter = before.session_counter
    /\ after.my_player_name = before.my_player_name
    /\ after.is_leaderboard_chain = before.is_leaderboard_chain
    /\ after.leaderboard_chain_id = before.leaderboard_chain_id

\* C15: a LeaderboardReset message processed (not bouncing) on a chain that
\* is not the leaderboard chain zeroes the chain's local highest_score,
\* games_played, total_candies, current_streak and best_streak, empties its
\* cached global_leaderboard, and leaves its sessions, my_sessions,
\* my_current_session, session_counter, my_player_name and role unchanged:
\* from every reachable chain state, and on every step that delivers one.
C15_ResetMessageZeroesLocalStats ==
    /\ [](\A c \in Chains, timestamp \in Times :
            ~is_leaderboard_chain[c] =>
                ResetOnPlayerChain(
                    ChainState(c),
                    execute_message(ChainState(c), [kind |-> "LeaderboardReset"],
                                    FALSE, timestamp).st))
    /\ [][\A c \in Chains :
             (/\ last'.is_message
              /\ ~last'.bouncing
              /\ last'.kind = "LeaderboardReset"
              /\ last'.chain = c
              /\ ~is_leaderboard_chain[c]) =>
                /\ LocalStatsZeroed(my_stats'[c])
                /\ global_leaderboard'[c] = <<>>
                /\ UNCHANGED <<sessions, my_sessions, my_current_session,
                               session_counter, my_player_name,
                               is_leaderboard_chain, leaderboard_chain_id>>]_vars

\* A player chain that has finished a game has just processed a
\* LeaderboardReset: its stats are there, zeroed, and its session is kept.
C15_Witness ==
    /\ last.is_message
    /\ ~last.bouncing
    /\ last.kind = "LeaderboardReset"
    /\ ~is_leaderboard_chain[last.chain]
    /\ my_stats[last.chain] # None
    /\ my_stats[last.chain][1].games_played = 0
    /\ \E id \in DOMAIN sessions[last.chain] :
          sessions[last.chain][id].state = "Finished"

\* ------------------------------------------------- the aggregator alone
\* A GameFinished or UpdateLeaderboard message, from any player chain with
\* any score, arrives at chain c (not bouncing) and is executed.
Receive(c) ==
    /\ injected < MaxReceived
    /\ \E msg \in AggregatorMessages, timestamp \in Times :
          /\ Commit(c, execute_message(ChainState(c), msg, FALSE, timestamp))
          /\ last' = Invocation(msg.kind, c, TRUE, FALSE, FALSE)
    /\ injected' = injected + 1
    /\ saved' = TRUE
    /\ UNCHANGED <<net, steps, acc, calls>>

NextAggregate == \E c \in Chains : Receive(c)

\* Every sequence of at most MaxReceived reports, to any chains, after
\* instantiate.
SpecAggregate == Init /\ [][NextAggregate]_vars

\* ------------------------------------------------------------------ C16
\* Entry a does not rank below entry b: its (highest_score, total_candies,
\* games_played) is lexicographically at least b's.
RanksAtLeast(a, b) ==
    \/ a.highest_score > b.highest_score
    \/ /\ a.highest_score = b.highest_score
       /\ a.total_candies > b.total_candies
    \/ /\ a.highest_score = b.highest_score
       /\ a.total_candies = b.total_candies
       /\ a.games_played >= b.games_played

C17_HighestScoreMonotone ==
    [][/\ \A a \in Chains :
             \A p \in DOMAIN player_stats[a] :
                \/ IsOperation("ResetLeaderboard", a)
                \/ /\ p \in DOMAIN player_stats'[a]
                   /\ player_stats'[a][p].highest_score
                         >= player_stats[a][p].highest_score
       /\ \A c \in Chains :
             my_stats[c] # None =>
                \/ /\ last'.is_message
                   /\ last'.kind = "LeaderboardReset"
                   /\ last'.chain = c
                \/ /\ my_stats'[c] # None
                   /\ my_stats'[c][1].highest_score
                         >= my_stats[c][1].highest_score]_vars

\* A leaderboard chain has just aggregated, for a player whose record it
\* already held, a report that is not a record: the player has at least two
\* games, a positive highest_score and a streak just broken.
C17_Witness ==
    /\ last.is_message
    /\ ~last.bouncing
    /\ last.kind \in {"GameFinished", "UpdateLeaderboard"}
    /\ is_leaderboard_chain[last.chain]
    /\ \E p \in DOMAIN player_stats[last.chain] :
          /\ player_stats[last.chain][p].games_played >= 2
          /\ player_stats[last.chain][p].highest_score > 0
          /\ player_stats[last.chain][p].current_streak = 0
          /\ player_stats[last.chain][p].total_candies
                = player_stats[last.chain][p].highest_score

\* ------------------------------------------------------------------ C18
\* C18: in every reachable state, a chain whose is_leaderboard_chain is
\* false has an empty player_stats map, an empty player_names map, an empty
\* leaderboard_participants set and an empty global_leaderboard.
C18_AggregateOnlyOnAuthority ==
    \A c \in Chains :
        ~is_leaderboard_chain[c] =>
            /\ player_stats[c] = EmptyMap
            /\ player_names[c] = EmptyMap
            /\ leaderboard_participants[c] = {}
            /\ global_leaderboard[c] = <<>>

\* A chain that is not the leaderboard chain has set its player name and
\* has just processed an UpdatePlayerName, GameFinished or UpdateLeaderboard
\* message that was not bouncing.
C18_Witness ==
    /\ last.is_message
    /\ ~last.bouncing
    /\ last.kind \in {"UpdatePlayerName", "GameFinished", "UpdateLeaderboard"}
    /\ ~is_leaderboard_chain[last.chain]
    /\ my_player_name[last.chain] # None

\* ------------------------------------------------------------------ C19
\* C19: in every reachable state at most one chain has is_leaderboard_chain
\* true, and all configured chains name the same leaderboard chain, which
\* is that chain when there is one.
C19_SingleAuthority ==
    /\ Cardinality({c \in Chains : is_leaderboard_chain[c]}) <= 1
    /\ \A c, d \in Chains :
          (leaderboard_chain_id[c] # None /\ leaderboard_chain_id[d] # None)
              => leaderboard_chain_id[c] = leaderboard_chain_id[d]
    /\ \A a, c \in Chains :
          (is_leaderboard_chain[a] /\ leaderboard_chain_id[c] # None)
              => leaderboard_chain_id[c] = Some(a)

\* ------------------------------------------------------------------ C20
\* C20: from every reachable state of every chain, a GameFinished message
\* (with any session id) and an UpdateLeaderboard message with the same
\* player_chain, candies_collected and is_new_record, processed at the same
\* time, yield the same chain state: player_stats, participants,
\* leaderboard and everything else; on a chain that is not the leaderboard
\* chain both leave the state as it is.
C20_GameFinishedAsUpdateLeaderboard ==
    \A c \in Chains, p \in Chains, n \in 0..MaxCandies, r \in BOOLEAN :
        \A id \in SessionIds, timestamp \in Times :
            LET finished == [kind |-> "GameFinished", session_id |-> id,
                             player_chain |-> p, candies_collected |-> n,
                             is_new_record |-> r]
                update == [kind |-> "UpdateLeaderboard", player_chain |-> p,
                           candies_collected |-> n, is_new_record |-> r]
            IN  /\ After(ChainState(c), finished, timestamp)
                      = After(ChainState(c), update, timestamp)
                /\ ~is_leaderboard_chain[c] =>
                      After(ChainState(c), update, timestamp) = ChainState(c)

\* A leaderboard chain that holds stats for two players has just processed
\* an UpdateLeaderboard message: the next report changes an aggregate that
\* is not empty, whichever of the two kinds carries it.
C20_Witness ==
    /\ last.is_message
    /\ ~last.bouncing
    /\ last.kind = "UpdateLeaderboard"
    /\ is_leaderboard_chain[last.chain]
    /\ DOMAIN player_stats[last.chain] = Chains
    /\ injected < MaxReceived

\* ------------------------------------------------------------------ C21
\* C21: a handler whose write to the durable state fails (here: the save at
\* the end of it) fails fatally; it never completes as a success with the
\* write dropped.
C21_StoreFailureIsFatal ==
    [][~saved' => last'.panicked]_vars

\* ------------------------------------------------------------------ C22
\* The report of kind for player_chain with this score and flag.
Report(kind, player_chain, candies_collected, is_new_record) ==
    IF kind = "GameFinished"
    THEN [kind |-> kind, session_id |-> SessionId(player_chain, 0),
          player_chain |-> player_chain,
          candies_collected |-> candies_collected,
          is_new_record |-> is_new_record]
    ELSE [kind |-> kind, player_chain |-> player_chain,
          candies_collected |-> candies_collected,
          is_new_record |-> is_new_record]

\* C22: on a leaderboard chain, processing a GameFinished or
\* UpdateLeaderboard message for player_chain p puts in player_stats[p] the
\* result of add_game(candies_collected) on the previous player_stats[p]
\* (PlayerStats::new(p) if absent), touches no other entry, and adds p to
\* leaderboard_participants; the same message with is_new_record flipped
\* yields the same state; and 10 then 7, both flagged as records, for a
\* player without stats give games_played 2, highest_score 10,
\* total_candies 17, current_streak 0, best_streak 1.
C22_AggregationIsAddGame ==
    \A c \in Chains :
        is_leaderboard_chain[c] =>
            /\ \A msg \in AggregatorMessages, timestamp \in Times :
                  LET p == msg.player_chain
                      previous == IF p \in DOMAIN player_stats[c]
                                  THEN player_stats[c][p]
                                  ELSE PlayerStats_new(p)
                      next == After(ChainState(c), msg, timestamp)
                  IN  /\ next.player_stats
                            = MapInsert(player_stats[c], p,
                                        add_game(previous, msg.candies_collected,
                                                 timestamp).stats)
                      /\ next.leaderboard_participants
                            = leaderboard_participants[c] \cup {p}
                      /\ After(ChainState(c),
                               [msg EXCEPT !.is_new_record = ~@], timestamp)
                            = next
            /\ \A p \in Chains \ DOMAIN player_stats[c] :
                  \A k1, k2 \in {"GameFinished", "UpdateLeaderboard"} :
                     LET first == After(ChainState(c), Report(k1, p, 10, TRUE), 1)
                         stats == After(first, Report(k2, p, 7, TRUE), 1).player_stats[p]
                     IN  /\ stats.games_played = 2
                         /\ stats.highest_score = 10
                         /\ stats.total_candies = 17
                         /\ stats.current_streak = 0
                         /\ stats.best_streak = 1

\* A leaderboard chain has just aggregated two reports for the same player,
\* a record and then a lower score (the 10-then-7 scenario within the
\* bounds), while the other player has no stats yet.
C22_Witness ==
    /\ last.is_message
    /\ is_leaderboard_chain[last.chain]
    /\ \E p \in Chains :
          /\ DOMAIN player_stats[last.chain] = {p}
          /\ player_stats[last.chain][p].games_played = 2
          /\ player_stats[last.chain][p].highest_score = 1
          /\ player_stats[last.chain][p].total_candies = 1
          /\ player_stats[last.chain][p].current_streak = 0
          /\ player_stats[last.chain][p].best_streak = 1
          /\ leaderboard_participants[last.chain] = {p}

\* ------------------------------------------------------------------ C23
\* C23: SetupLeaderboard(candidate) on a chain whose leaderboard_chain_id is
\* None does not panic and stores leaderboard_chain_id = Some(candidate) and
\* is_leaderboard_chain = (the chain's id = candidate), changing nothing
\* else and sending nothing; and in every reachable state, on every chain,
\* is_leaderboard_chain is true exactly when leaderboard_chain_id is the
\* chain's own id.
C23_RoleMatchesConfiguration ==
    /\ [](\A c \in Chains :
            is_leaderboard_chain[c] = (leaderboard_chain_id[c] = Some(c)))
    /\ [](\A c \in Chains, candidate \in Chains :
            leaderboard_chain_id[c] = None =>
                SetupLeaderboard(ChainState(c), c, candidate)
                    = Done([ChainState(c) EXCEPT
                              !.leaderboard_chain_id = Some(candidate),
                              !.is_leaderboard_chain = (c = candidate)],
                           {}))
    /\ [][\A c \in Chains :
             (IsOperation("SetupLeaderboard", c) /\ leaderboard_chain_id[c] = None) =>
                /\ ~last'.panicked
                /\ leaderboard_chain_id'[c] # None
                /\ is_leaderboard_chain'[c] = (leaderboard_chain_id'[c] = Some(c))
                /\ NothingSent]_vars

\* An unconfigured chain has just been configured as its own leaderboard
\* chain, next to a chain configured as a player chain.
C23_Witness ==
    /\ last.kind = "SetupLeaderboard"
    /\ ~last.is_message
    /\ ~last.panicked
    /\ leaderboard_chain_id[last.chain] = Some(last.chain)
    /\ is_leaderboard_chain[last.chain]
    /\ \E d \in Chains :
          /\ d # last.chain
          /\ leaderboard_chain_id[d] = Some(last.chain)
          /\ ~is_leaderboard_chain[d]

\* ------------------------------------------------------------------ C24
\* The step is a CollectCandy on chain c that found a current session.
CollectsCandy(c) ==
    /\ IsOperation("CollectCandy", c)
    /\ my_current_session[c] # None
    /\ my_current_session[c][1] \in DOMAIN sessions[c]

\* The step added exactly 1 to the candies_collected of c's current session
\* and changed no other session, no stats and nothing else on any chain.
OneCandyMore(c) ==
    /\ sessions' = [sessions EXCEPT
                       ![c][my_current_session[c][1]].candies_collected = @ + 1]
    /\ UNCHANGED <<session_counter, player_names, my_player_name,
                   global_leaderboard, player_stats, leaderboard_participants,
                   is_leaderboard_chain, leaderboard_chain_id, my_sessions,
                   my_stats, my_current_session>>

\* The CandyCollected message CollectCandy on chain c sends for its current
\* session, addressed to dest.
ExpectedCandyCollected(c, dest) ==
    Envelope(c, dest,
             [kind |-> "CandyCollected",
              session_id |-> my_current_session[c][1],
              player_chain |-> c])

\* C24 as stated: a CollectCandy on a chain with a current session adds
\* exactly 1 to that session's candies_collected, changes no other session
\* and no stats, and sends exactly one CandyCollected{session_id, owner}
\* message.
C24_CollectCandySendsOne ==
    [][\A c \in Chains :
         CollectsCandy(c) =>
            /\ OneCandyMore(c)
            /\ \E dest \in Chains :
                  SentExactly({ExpectedCandyCollected(c, dest)})]_vars

\* C24 amended: the same local effect on every chain; the one
\* CandyCollected message goes to A on a chain whose leaderboard_chain_id is
\* Some(A), and a chain whose leaderboard_chain_id is None sends nothing.
C24_CollectCandySendsOneWhenConfigured ==
    [][\A c \in Chains :
         CollectsCandy(c) =>
            /\ ~last'.panicked
            /\ OneCandyMore(c)
            /\ IF leaderboard_chain_id[c] # None
               THEN SentExactly({ExpectedCandyCollected(
                                    c, leaderboard_chain_id[c][1])})
               ELSE NothingSent]_vars

\* A CollectCandy has just raised the current session of a configured
\* player chain to one candy and its CandyCollected message is in flight to
\* the leaderboard chain.
C24_Witness ==
    /\ last.kind = "CollectCandy"
    /\ ~last.is_message
    /\ my_current_session[last.chain] # None
    /\ sessions[last.chain][my_current_session[last.chain][1]].candies_collected = 1
    /\ leaderboard_chain_id[last.chain] # None
    /\ leaderboard_chain_id[last.chain] # Some(last.chain)
    /\ ExpectedCandyCollected(last.chain, leaderboard_chain_id[last.chain][1])
          \in InFlight

\* ------------------------------------------------------------------ C25
\* C25: CollectCandy and EndGame on a chain whose my_current_session is None
\* (no game started yet, or the last one ended) return without panic, leave
\* the whole chain state unchanged and send nothing: from every reachable
\* chain state, and on every such step.
C25_NoSessionNoEffect ==
    /\ [](\A c \in Chains, timestamp \in Times :
            my_current_session[c] = None =>
                /\ CollectCandy(ChainState(c), c) = Done(ChainState(c), {})
                /\ EndGame(ChainState(c), c, timestamp) = Done(ChainState(c), {}))
    /\ [][\A c \in Chains :
             (/\ IsOperation("CollectCandy", c) \/ IsOperation("EndGame", c)
              /\ my_current_session[c] = None) =>
                (~last'.panicked /\ UNCHANGED chainVars /\ NothingSent)]_vars

\* An EndGame or CollectCandy has just run on a configured chain whose last
\* game had already ended: the chain holds a Finished session, local stats
\* and no current session.
C25_Witness ==
    /\ last.kind \in {"CollectCandy", "EndGame"}
    /\ ~last.is_message
    /\ ~last.panicked
    /\ my_current_session[last.chain] = None
    /\ leaderboard_chain_id[last.chain] # None
    /\ my_stats[last.chain] # None
    /\ my_stats[last.chain][1].games_played = 1
    /\ steps >= 3
    /\ \A id \in DOMAIN sessions[last.chain] :
          sessions[last.chain][id].state = "Finished"

\* ------------------------------------------------------------------ C26
\* The local stats of chain c, or PlayerStats::new(c) when it has none.
LocalStatsOrNew(c) ==
    IF my_stats[c] # None THEN my_stats[c][1] ELSE PlayerStats_new(c)

\* C26: on a chain whose leaderboard_chain_id is None, SetPlayerName,
\* CollectCandy and EndGame do not panic and send nothing, and still do
\* their local work: SetPlayerName stores the name; CollectCandy adds one
\* candy to the current session; EndGame marks the current session Finished
\* with end_time set, puts add_game(candies_collected) of the local stats
\* in my_stats and clears my_current_session.
C26_UnconfiguredChainWorksLocally ==
    /\ [](\A c \in Chains, name \in Names :
            leaderboard_chain_id[c] = None =>
                SetPlayerName(ChainState(c), c, name)
                    = Done([ChainState(c) EXCEPT !.my_player_name = Some(name)],
                           {}))
    /\ [][\A c \in Chains :
             leaderboard_chain_id[c] = None =>
                /\ IsOperation("SetPlayerName", c) =>
                      /\ ~last'.panicked
                      /\ NothingSent
                      /\ my_player_name'[c] # None
                /\ CollectsCandy(c) =>
                      /\ ~last'.panicked
                      /\ NothingSent
                      /\ OneCandyMore(c)
                /\ EndsSession(c) =>
                      LET id == my_current_session[c][1]
                      IN  /\ ~last'.panicked
                          /\ NothingSent
                          /\ sessions'[c][id].state = "Finished"
                          /\ sessions'[c][id].end_time # None
                          /\ sessions'[c][id].candies_collected = CurrentCandies(c)
                          /\ \E timestamp \in Times :
                                /\ sessions'[c][id].end_time = Some(timestamp)
                                /\ my_stats'[c]
                                      = Some(add_game(LocalStatsOrNew(c),
                                                      CurrentCandies(c),
                                                      timestamp).stats)
                          /\ my_current_session'[c] = None]_vars

\* An EndGame has just finished a one-candy session on a chain that has a
\* player name and no leaderboard chain: nothing of the chain is in flight.
C26_Witness ==
    /\ last.kind = "EndGame"
    /\ ~last.is_message
    /\ ~last.panicked
    /\ leaderboard_chain_id[last.chain] = None
    /\ my_player_name[last.chain] # None
    /\ my_stats[last.chain] # None
    /\ my_stats[last.chain][1].highest_score = 1
    /\ \A e \in InFlight : e.src # last.chain

\* ------------------------------------------------------------------ C27
\* The UpdatePlayerName message of chain c for name, addressed to dest.
ExpectedUpdatePlayerName(c, dest, name) ==
    Envelope(c, dest,
             [kind |-> "UpdatePlayerName", player_chain |-> c,
              player_name |-> name])

\* C27: SetPlayerName(name) never panics and always stores Some(name) in
\* my_player_name; on a configured chain that is not the leaderboard chain
\* it sends exactly one UpdatePlayerName{chain, name} to the configured
\* leaderboard chain and leaves its own player_names unchanged; on a
\* leaderboard chain it sets player_names[self] = name and sends nothing;
\* and an UpdatePlayerName{owner, name} processed (not bouncing) on a
\* leaderboard chain sets player_names[owner] = name and nothing else.
C27_SetPlayerName ==
    /\ [](\A c \in Chains, name \in Names :
            LET res == SetPlayerName(ChainState(c), c, name)
            IN  /\ ~res.panicked
                /\ res.st.my_player_name = Some(name)
                /\ (leaderboard_chain_id[c] # None /\ ~is_leaderboard_chain[c]) =>
                      /\ res.out = {ExpectedUpdatePlayerName(
                                        c, leaderboard_chain_id[c][1], name)}
                      /\ res.st.player_names = player_names[c]
                /\ is_leaderboard_chain[c] =>
                      /\ res.out = {}
                      /\ res.st.player_names = MapInsert(player_names[c], c, name))
    /\ [](\A a \in Chains, owner \in Chains, name \in Names, timestamp \in Times :
            is_leaderboard_chain[a] =>
                After(ChainState(a),
                      [kind |-> "UpdatePlayerName", player_chain |-> owner,
                       player_name |-> name], timestamp)
                    = [ChainState(a) EXCEPT
                          !.player_names = MapInsert(@, owner, name)])
    /\ [][\A c \in Chains :
             IsOperation("SetPlayerName", c) =>
                /\ ~last'.panicked
                /\ my_player_name'[c] # None
                /\ (leaderboard_chain_id[c] # None /\ ~is_leaderboard_chain[c]) =>
                      /\ SentExactly({ExpectedUpdatePlayerName(
                                          c, leaderboard_chain_id[c][1],
                                          my_player_name'[c][1])})
                      /\ player_names'[c] = player_names[c]
                /\ is_leaderboard_chain[c] =>
                      /\ NothingSent
                      /\ c \in DOMAIN player_names'[c]
                      /\ player_names'[c][c] = my_player_name'[c][1]]_vars

\* A leaderboard chain has just processed the UpdatePlayerName message of
\* another chain and holds that chain's name in its player_names.
C27_Witness ==
    /\ last.is_message
    /\ ~last.bouncing
    /\ last.kind = "UpdatePlayerName"
    /\ is_leaderboard_chain[last.chain]
    /\ \E owner \in DOMAIN player_names[last.chain] :
          /\ owner # last.chain
          /\ leaderboard_chain_id[owner] = Some(last.chain)
          /\ my_player_name[owner] = Some(player_names[last.chain][owner])

\* ------------------------------------------------------------------ C28
\* What the add_game call of EndGame on chain c returns for the current
\* session (the timestamp does not enter the record decision).
AddGameSaysRecord(c) ==
    add_game(LocalStatsOrNew(c), CurrentCandies(c), 1).is_record

\* C28 as stated: for every EndGame that finishes a session, the is_record
\* stored on the session equals the value returned by the add_game call the
\* same EndGame applies to the local stats.
C28_IsRecordIsAddGameResult ==
    [][\A c \in Chains :
         EndsSession(c) =>
            sessions'[c][my_current_session[c][1]].is_record
                = AddGameSaysRecord(c)]_vars

\* C28 amended: the two agree whenever the chain holds local stats (zeroed
\* by a LeaderboardReset or not) or the session has at least one candy; on
\* a chain without local stats a session with 0 candies is stored as a
\* record while add_game returns false.
C28_IsRecordIsAddGameResultButFirstEmptyGame ==
    [][\A c \in Chains :
         EndsSession(c) =>
            LET stored == sessions'[c][my_current_session[c][1]].is_record
            IN  IF my_stats[c] = None /\ CurrentCandies(c) = 0
                THEN stored /\ ~AddGameSaysRecord(c)
                ELSE stored = AddGameSaysRecord(c)]_vars

\* An EndGame has just finished the first game a chain played after a
\* LeaderboardReset zeroed its local stats; the game, with one candy, is a
\* record again.
C28_Witness ==
    /\ last.kind = "EndGame"
    /\ ~last.is_message
    /\ my_stats[last.chain] # None
    /\ my_stats[last.chain][1].games_played = 1
    /\ my_stats[last.chain][1].highest_score = 1
    /\ Len(my_sessions[last.chain]) = 2
    /\ \A i \in 1..2 :
          /\ sessions[last.chain][my_sessions[last.chain][i]].state = "Finished"
          /\ sessions[last.chain][my_sessions[last.chain][i]].is_record

\* ------------------------------------------------------------------ C29
\* C29: in every state with no message in flight, reached by games, resets
\* and deliveries in any order, every chain p with an entry in a leaderboard
\* chain's player_stats holds local stats with the same highest_score as
\* that entry, p being the leaderboard chain itself included.
C29_QuiescentScoresAgree ==
    net = EmptyBag =>
        \A a \in Chains :
            is_leaderboard_chain[a] =>
                \A p \in DOMAIN player_stats[a] :
                    /\ my_stats[p] # None
                    /\ player_stats[a][p].highest_score
                          = my_stats[p][1].highest_score

\* ------------------------------------------------------------------ C30
\* C30: in every reachable state, on every leaderboard chain, the set of
\* keys of player_stats is the set leaderboard_participants: the rebuild,
\* which walks the keys of player_stats, and the reset fan-out, which walks
\* leaderboard_participants, range over the same chains.
C30_StatsKeysAreParticipants ==
    \A c \in Chains :
        is_leaderboard_chain[c] =>
            DOMAIN player_stats[c] = leaderboard_participants[c]

\* A leaderboard chain was reset while another chain was its participant
\* (that chain's LeaderboardReset is still in flight) and has aggregated a
\* report of its own since: both sets were emptied and filled again.
C30_Witness ==
    \E a \in Chains :
        /\ is_leaderboard_chain[a]
        /\ leaderboard_participants[a] = {a}
        /\ DOMAIN player_stats[a] = {a}
        /\ \E e \in InFlight :
              /\ e.msg.kind = "LeaderboardReset"
              /\ e.src = a
              /\ e.dest # a

\* ------------------------------------------------------------------ C31
\* The current-session pointer of chain c, when set, names a session stored
\* on c, owned by c, Playing and not ended.
CurrentSessionIsLive(c) ==
    my_current_session[c] # None =>
        /\ my_current_session[c][1] \in DOMAIN sessions[c]
        /\ sessions[c][my_current_session[c][1]].player = c
        /\ sessions[c][my_current_session[c][1]].state = "Playing"
        /\ sessions[c][my_current_session[c][1]].end_time = None

\* Every session stored on chain c is owned by c.
SessionsAreOwn(c) ==
    \A id \in DOMAIN sessions[c] : sessions[c][id].player = c

\* C31: in every reachable state of every chain, a non-empty
\* my_current_session names a session stored on that chain, owned by it,
\* in state Playing and with end_time None, and every session stored on a
\* chain has that chain as its player; and no step that handles a message,
\* delivered or bouncing, changes any chain's sessions, session list or
\* current-session pointer.
C31_CurrentSessionIsOwnAndPlaying ==
    /\ [](\A c \in Chains : CurrentSessionIsLive(c) /\ SessionsAreOwn(c))
    /\ [][last'.is_message =>
            /\ sessions' = sessions
            /\ my_sessions' = my_sessions
            /\ my_current_session' = my_current_session]_vars

\* A message that is not bouncing has just been handled on a chain that
\* holds a Finished session and a current one.
C31_Witness ==
    /\ last.is_message
    /\ ~last.bouncing
    /\ my_current_session[last.chain] # None
    /\ \E id \in DOMAIN sessions[last.chain] :
          sessions[last.chain][id].state = "Finished"

=============================================================================
